---- MODULE Spec2Model ----
(***************************************************************************)
(* Eye-disease detection pipeline.                                         *)
(*                                                                         *)
(*   scripts/ml_model_training.py  EyeDiseaseDetector: train_models,       *)
(*                                 evaluate_models, predict_disease,       *)
(*                                 save_models          (specification     *)
(*                                 Spec)                                   *)
(*   scripts/data_preprocessing.py EyeDataPreprocessor: augment_data,      *)
(*                                 create_dataset_splits (specification    *)
(*                                 PrepSpec)                               *)
(*                                                                         *)
(* Both scripts are single-threaded.  A method call is a run of steps with *)
(* a program counter; no other call starts while one is in progress.       *)
(* Floating-point values are kept as exact rationals: a probability is an  *)
(* integer number of 1/Scale units, a percentage is its numerator over     *)
(* Scale.  Python's 0-based indices are shifted to TLA+'s 1-based ones.    *)
(* Calls into Keras and scikit-learn are modelled by what the library      *)
(* returns at the call site.                                               *)
(***************************************************************************)
EXTENDS Integers, Sequences, FiniteSets, TLC

(* ------------------------------ bounds -------------------------------- *)

\* How many entries of the class list the model keeps (the source has 8).
NumClasses == 3

\* A probability is k/Scale, k in 0..Scale.
Scale == 3

\* Number of samples in the test set handed to evaluate_models (main: 200).
TestSamples == 2

(* ------------------------ EyeDiseaseDetector -------------------------- *)

AllClassNames ==
    << "Normal", "Diabetic Retinopathy", "Glaucoma", "Cataract",
       "Age-related Macular Degeneration", "Hypertensive Retinopathy",
       "Pathological Myopia", "Other" >>

\* self.class_names
class_names == SubSeq(AllClassNames, 1, NumClasses)

ClassIdx == 1..Len(class_names)

\* The three keys predict_disease requires.
RequiredModels == <<"oct", "retinal", "fusion">>

\* simulate_training_data(2000) in train_models
TrainingSamples == 2000

\* train_models(epochs=10) and main's train_models(epochs=5)
DefaultEpochs == 10
MainEpochs == 5

\* Python dict: keys in insertion order; assigning an existing key keeps its place.
HasKey(d, k) == \E i \in 1..Len(d) : d[i] = k

DictSet(d, k) == IF HasKey(d, k) THEN d ELSE Append(d, k)

RECURSIVE SumTo(_, _)
SumTo(v, n) == IF n = 0 THEN 0 ELSE v[n] + SumTo(v, n - 1)

\* Outputs of a Dense(len(class_names), activation='softmax') layer: a
\* probability distribution over the classes.
ProbVectors ==
    { v \in [ClassIdx -> 0..Scale] : SumTo(v, Len(class_names)) = Scale }

\* What a layer without the softmax would emit (unnormalised scores).
RawScores == [ClassIdx -> 0..(Scale + 1)]

\* model.predict(...)[0] for any of the three models
ModelOutputs == ProbVectors

\* np.argmax: the first index holding the maximum.
ArgMax(v) ==
    CHOOSE i \in DOMAIN v :
        /\ \A j \in DOMAIN v : v[j] <= v[i]
        /\ \A j \in DOMAIN v : j < i => v[j] < v[i]

\* float(p) * 100, as a numerator over Scale
Pct(p) == p * 100

\* A stage-1 model's own favourite class, instead of the fused one.
OwnConfidence(pred, idx) == Pct(pred[ArgMax(pred)])

\* float(oct_pred[0][predicted_class_idx]) * 100
StageConfidence(pred, idx) == Pct(pred[idx])

\* ceil(x) for x = num/den >= 0
Ceil(num, den) == (num + den - 1) \div den

\* test_size=0.2 (train_models and create_dataset_splits), val_size=0.1
TestSizeDefault == [num |-> 2, den |-> 10]
ValSizeDefault == [num |-> 1, den |-> 10]

\* scikit-learn's size rule for a float test_size with train_size=None:
\* n_test = ceil(test_size * n), n_train = n - n_test.
NTest(n, size) == Ceil(size.num * n, size.den)

VARIABLES
    models,      \* self.models: the keys of the dict, in insertion order
    pc,          \* position of the detector's call in progress ("idle": none)
    frame,       \* locals of the latest call (a new call starts from a fresh frame)
    events,      \* train_models: the training events of the latest call, in order
    split,       \* train_models: rows of X_train and X_val
    preds,       \* train_models: rows of the four stage-1 prediction arrays
    invoked,     \* predict_disease: the models invoked by the latest call, in order
    prediction,  \* predict_disease: the dict returned by the latest call
    results,     \* evaluate_models: the results dict, an entry per evaluated model
    files,       \* save_models: the files written by the latest call, in order
                 \* (what a call returned or wrote is forgotten when the next begins)
    last,        \* the latest call: its name, the dict it found, how it ended
    fed,         \* what the latest call handed to the fusion model, if anything
    images,      \* preprocessing: the image array in hand
    labels,      \* preprocessing: the label array in hand (parallel to images)
    parts,       \* create_dataset_splits: the returned partitions
    prep,        \* preprocessing: the latest call and how it ended
    saved        \* save_processed_data: the files it wrote, in write order

detVars == << models, pc, frame, events, split, preds, invoked, prediction,
              results, files, last, fed >>

prepVars == << images, labels, parts, prep, saved >>

vars == << models, pc, frame, events, split, preds, invoked, prediction,
           results, files, last, fed, images, labels, parts, prep, saved >>

NoFrame ==
    [ epochs |-> 0, image_rank |-> 0, oct_pred |-> <<>>, retinal_pred |-> <<>>,
      final_pred |-> <<>>, y_test |-> <<>>, idx |-> 0 ]

NoSplit == [train |-> 0, val |-> 0]

NoPreds == [oct_train |-> 0, oct_val |-> 0, retinal_train |-> 0, retinal_val |-> 0]

NoPrediction ==
    [ disease |-> "", confidence |-> 0, oct_confidence |-> 0,
      retinal_confidence |-> 0, all_predictions |-> <<>> ]

(* ---- the three model graphs ---- *)

\* Line 74: the OCT model ends in Dense(len(self.class_names)).
OctOutputWidth == Len(class_names)

\* Line 116: the retinal model ends in Dense(len(self.class_names)).
RetinalOutputWidth == Len(class_names)

\* Lines 132 and 135: the shapes of the fusion model's two prediction inputs.
FusionInputWidths ==
    [ oct_predictions |-> Len(class_names), retinal_predictions |-> Len(class_names) ]

\* Line 145: image_features = Dense(256)
ImageFeatureWidth == 256

\* A Concatenate that leaves the image features out.
ConcatWithoutImage ==
    FusionInputWidths.oct_predictions + FusionInputWidths.retinal_predictions

\* Line 148: Concatenate()([oct_input, retinal_input, image_features])
CombinedLength ==
    FusionInputWidths.oct_predictions + FusionInputWidths.retinal_predictions
        + ImageFeatureWidth

NoFed == [by |-> "", oct |-> 0, retinal |-> 0, combined |-> 0]

\* The arrays a caller hands to the fusion model are what the stage-1
\* models' predict returned: a row is as wide as that model's last layer.
Fed(by) ==
    [ by |-> by, oct |-> OctOutputWidth, retinal |-> RetinalOutputWidth,
      combined |-> CombinedLength ]

\* Keras refuses an array whose row width is not the input's declared shape.
FusionAccepts(f) ==
    /\ f.oct = FusionInputWidths.oct_predictions
    /\ f.retinal = FusionInputWidths.retinal_predictions

NotTrained == "ValueError: Models not trained. Please train models first."

Called(op, before) == [op |-> op, before |-> before, state |-> "running", error |-> ""]

Returned(l) == [l EXCEPT !.state = "returned"]

Raised(l, err) == [l EXCEPT !.state = "raised", !.error = err]

Range(f) == { f[i] : i \in DOMAIN f }

(* ---- train_models ---- *)

\* Lines 191-195: simulate_training_data(2000), then the 80/20 split.
TrainBegin(epochs) ==
    /\ pc = "idle"
    /\ pc' = "oct_fit"
    /\ last' = Called("train_models", models)
    /\ frame' = [NoFrame EXCEPT !.epochs = epochs]
    /\ split' = [ train |-> TrainingSamples - NTest(TrainingSamples, TestSizeDefault),
                  val |-> NTest(TrainingSamples, TestSizeDefault) ]
    /\ events' = <<>>
    /\ preds' = NoPreds
    /\ invoked' = <<>>
    /\ prediction' = NoPrediction
    /\ results' = <<>>
    /\ files' = <<>>
    /\ fed' = NoFed
    /\ UNCHANGED models

\* Lines 197-206, the fitted OCT model not being put in the dict.
OctFitUnregistered ==
    /\ pc = "oct_fit"
    /\ events' = Append(events, "oct_fit")
    /\ models' = models
    /\ pc' = "retinal_fit"
    /\ UNCHANGED << frame, split, preds, invoked, prediction, results, files, last, fed >>

\* Lines 197-207: create, fit and register the OCT model.
OctFit ==
    /\ pc = "oct_fit"
    /\ events' = Append(events, "oct_fit")
    /\ models' = DictSet(models, "oct")
    /\ pc' = "retinal_fit"
    /\ UNCHANGED << frame, split, preds, invoked, prediction, results, files, last, fed >>

\* Lines 209-219, with the stage-1 predictions skipped.
RetinalFitThenFusion ==
    /\ pc = "retinal_fit"
    /\ events' = Append(events, "retinal_fit")
    /\ models' = DictSet(models, "retinal")
    /\ pc' = "fusion_fit"
    /\ UNCHANGED << frame, split, preds, invoked, prediction, results, files, last, fed >>

\* Lines 209-219: create, fit and register the retinal model.
RetinalFit ==
    /\ pc = "retinal_fit"
    /\ events' = Append(events, "retinal_fit")
    /\ models' = DictSet(models, "retinal")
    /\ pc' = "stage1_predict"
    /\ UNCHANGED << frame, split, preds, invoked, prediction, results, files, last, fed >>

\* Lines 221-225: both stage-1 models predict X_train and X_val; predict
\* returns one row per input row.
Stage1Predict ==
    /\ pc = "stage1_predict"
    /\ preds' = [ oct_train |-> split.train, oct_val |-> split.val,
                  retinal_train |-> split.train, retinal_val |-> split.val ]
    /\ events' = Append(events, "stage1_predict")
    /\ pc' = "fusion_fit"
    /\ UNCHANGED << models, frame, split, invoked, prediction, results, files, last, fed >>

\* Lines 227-244: create, fit and register the fusion model, then return the
\* histories.  Keras refuses inputs whose row counts differ or whose rows
\* are not as wide as the declared inputs.
FusionFit ==
    /\ pc = "fusion_fit"
    /\ events' = Append(events, "fusion_fit")
    /\ fed' = Fed("train_models")
    /\ IF /\ preds.oct_train = split.train /\ preds.retinal_train = split.train
          /\ preds.oct_val = split.val /\ preds.retinal_val = split.val
          /\ FusionAccepts(Fed("train_models"))
       THEN /\ models' = DictSet(models, "fusion")
            /\ last' = Returned(last)
       ELSE /\ models' = models
            /\ last' = Raised(last, "ValueError: data cardinality is ambiguous")
    /\ pc' = "idle"
    /\ UNCHANGED << frame, split, preds, invoked, prediction, results, files >>

\* A library call inside train_models raises (no weights to download, out of
\* memory, ...): the exception leaves train_models at once.
TrainAbort ==
    /\ pc \in {"oct_fit", "retinal_fit", "stage1_predict", "fusion_fit"}
    /\ pc' = "idle"
    /\ last' = Raised(last, "Exception")
    /\ UNCHANGED << models, frame, events, split, preds, invoked, prediction,
                    results, files, fed >>

(* ---- predict_disease ---- *)

\* A guard that is content with any one of the three models.
AnyTrained(d) == \E i \in 1..Len(RequiredModels) : HasKey(d, RequiredModels[i])

\* all(model in self.models for model in ['oct', 'retinal', 'fusion'])
AllTrained(d) == \A i \in 1..Len(RequiredModels) : HasKey(d, RequiredModels[i])

\* An image (rank 3) or a batch holding one image (rank 4).
ImageRanks == {3, 4}

\* np.expand_dims(image, axis=0) when len(image.shape) == 3
ExpandDims(rank) == IF rank = 3 THEN rank + 1 ELSE rank

\* Lines 283-290: the guard, then the batch dimension.
PredictBegin(rank) ==
    /\ pc = "idle"
    /\ invoked' = <<>>
    /\ prediction' = NoPrediction
    /\ IF ~AllTrained(models)
       THEN /\ last' = Raised(Called("predict_disease", models), NotTrained)
            /\ frame' = NoFrame
            /\ pc' = "idle"
       ELSE /\ last' = Called("predict_disease", models)
            /\ frame' = [NoFrame EXCEPT !.image_rank = ExpandDims(rank)]
            /\ pc' = "predict_oct"
    /\ results' = <<>>
    /\ files' = <<>>
    /\ fed' = NoFed
    /\ UNCHANGED << models, events, split, preds >>

\* Line 293: self.models['oct'].predict(image)
PredictOct ==
    /\ pc = "predict_oct"
    /\ IF HasKey(models, "oct")
       THEN /\ \E v \in ModelOutputs : frame' = [frame EXCEPT !.oct_pred = v]
            /\ invoked' = Append(invoked, "oct")
            /\ pc' = "predict_retinal"
            /\ last' = last
       ELSE /\ frame' = frame
            /\ invoked' = invoked
            /\ pc' = "idle"
            /\ last' = Raised(last, "KeyError: 'oct'")
    /\ UNCHANGED << models, events, split, preds, prediction, results, files, fed >>

\* Line 294: self.models['retinal'].predict(image)
PredictRetinal ==
    /\ pc = "predict_retinal"
    /\ IF HasKey(models, "retinal")
       THEN /\ \E v \in ModelOutputs : frame' = [frame EXCEPT !.retinal_pred = v]
            /\ invoked' = Append(invoked, "retinal")
            /\ pc' = "predict_fusion"
            /\ last' = last
       ELSE /\ frame' = frame
            /\ invoked' = invoked
            /\ pc' = "idle"
            /\ last' = Raised(last, "KeyError: 'retinal'")
    /\ UNCHANGED << models, events, split, preds, prediction, results, files, fed >>

\* Lines 299-317: the returned dict, from the three prediction rows.
\* all_predictions is keyed by class_names[i]; here by i.
PredictionOf(oct_pred, retinal_pred, final_pred) ==
    LET predicted_class_idx == ArgMax(final_pred)
    IN  [ disease |-> class_names[predicted_class_idx],
          confidence |-> Pct(final_pred[predicted_class_idx]),
          oct_confidence |-> StageConfidence(oct_pred, predicted_class_idx),
          retinal_confidence |-> StageConfidence(retinal_pred, predicted_class_idx),
          all_predictions |-> [i \in ClassIdx |-> Pct(final_pred[i])] ]

\* Lines 297-317: the fusion model's prediction and the result.
PredictFusion ==
    /\ pc = "predict_fusion"
    /\ IF ~HasKey(models, "fusion")
       THEN /\ frame' = frame
            /\ invoked' = invoked
            /\ prediction' = prediction
            /\ fed' = fed
            /\ last' = Raised(last, "KeyError: 'fusion'")
       ELSE IF ~FusionAccepts(Fed("predict_disease"))
       THEN /\ frame' = frame
            /\ invoked' = Append(invoked, "fusion")
            /\ prediction' = prediction
            /\ fed' = Fed("predict_disease")
            /\ last' = Raised(last, "ValueError: incompatible input shape")
       ELSE \E v \in ModelOutputs :
              /\ frame' = [frame EXCEPT !.final_pred = v]
              /\ invoked' = Append(invoked, "fusion")
              /\ prediction' = PredictionOf(frame.oct_pred, frame.retinal_pred, v)
              /\ fed' = Fed("predict_disease")
              /\ last' = Returned(last)
    /\ pc' = "idle"
    /\ UNCHANGED << models, events, split, preds, results, files >>

(* ---- evaluate_models ---- *)

\* The class indices np.argmax(predictions, axis=1) can hold.
PredictedClasses == { ArgMax(v) : v \in ModelOutputs }

\* simulate_training_data: np.random.choice over the classes with
\* label_distribution, every entry of which is positive: any label array
\* can be drawn.  A row of y is the one-hot of its class index, and
\* np.argmax(y_test, axis=1) gives that index back.
LabelArrays(n) == [1..n -> ClassIdx]

\* sklearn.utils.multiclass.unique_labels(y_true, y_pred)
UniqueLabels(y_true, y_pred) == Range(y_true) \cup Range(y_pred)

\* classification_report(y_true, y_pred, target_names=...) with no labels
\* argument raises when the labels it finds are not as many as the names.
ReportRaises(y_true, y_pred, target_names) ==
    Cardinality(UniqueLabels(y_true, y_pred)) # Len(target_names)

\* np.mean(y_pred_classes == y_true_classes), as a fraction
Accuracy(y_true, y_pred) ==
    [ num |-> Cardinality({ i \in DOMAIN y_true : y_pred[i] = y_true[i] }),
      den |-> Len(y_true) ]

\* Lines 246-250: the call, on a test set from simulate_training_data.
EvalBegin(y_test) ==
    /\ pc = "idle"
    /\ pc' = "evaluate"
    /\ last' = Called("evaluate_models", models)
    /\ frame' = [NoFrame EXCEPT !.y_test = y_test, !.idx = 1]
    /\ results' = <<>>
    /\ invoked' = <<>>
    /\ prediction' = NoPrediction
    /\ files' = <<>>
    /\ fed' = NoFed
    /\ UNCHANGED << models, events, split, preds >>

\* Lines 252-281: one turn of the loop over self.models.items(), or the
\* return once the loop is over.
EvalStep ==
    /\ pc = "evaluate"
    /\ IF frame.idx > Len(models)
       THEN /\ pc' = "idle"
            /\ last' = Returned(last)
            /\ UNCHANGED << frame, results >>
       ELSE LET model_name == models[frame.idx]
            IN  IF model_name = "fusion" /\ ~HasKey(models, "oct")
                THEN /\ pc' = "idle"
                     /\ last' = Raised(last, "KeyError: 'oct'")
                     /\ UNCHANGED << frame, results >>
                ELSE IF model_name = "fusion" /\ ~HasKey(models, "retinal")
                THEN /\ pc' = "idle"
                     /\ last' = Raised(last, "KeyError: 'retinal'")
                     /\ UNCHANGED << frame, results >>
                ELSE IF model_name = "fusion" /\ ~FusionAccepts(Fed("evaluate_models"))
                THEN /\ pc' = "idle"
                     /\ last' = Raised(last, "ValueError: incompatible input shape")
                     /\ UNCHANGED << frame, results >>
                ELSE \E y_pred \in [DOMAIN frame.y_test -> PredictedClasses] :
                       IF ReportRaises(frame.y_test, y_pred, class_names)
                       THEN /\ pc' = "idle"
                            /\ last' = Raised(last, "ValueError: Number of classes does not match size of target_names")
                            /\ UNCHANGED << frame, results >>
                       ELSE /\ results' = Append(results,
                                 [ model |-> model_name,
                                   accuracy |-> Accuracy(frame.y_test, y_pred) ])
                            /\ frame' = [frame EXCEPT !.idx = @ + 1]
                            /\ pc' = pc
                            /\ last' = last
    /\ fed' = IF /\ frame.idx <= Len(models)
                  /\ models[frame.idx] = "fusion"
                  /\ HasKey(models, "oct") /\ HasKey(models, "retinal")
               THEN Fed("evaluate_models")
               ELSE fed
    /\ UNCHANGED << models, events, split, preds, invoked, prediction, files >>

(* ---- save_models ---- *)

\* One file for each of the three models the pipeline knows.
RequiredModelFiles(d) ==
    [i \in 1..Len(RequiredModels) |-> <<RequiredModels[i], "_model.h5">>]

\* Lines 323 to 326: f'{model_name}_model.h5' for each item of the dict.
ModelFiles(d) == [i \in 1..Len(d) |-> <<d[i], "_model.h5">>]

\* Lines 319-332: a file per entry of self.models, then class_names.json.
SaveModels ==
    /\ pc = "idle"
    /\ files' = ModelFiles(models) \o << <<"class_names.json">> >>
    /\ last' = Returned(Called("save_models", models))
    /\ frame' = NoFrame
    /\ invoked' = <<>>
    /\ prediction' = NoPrediction
    /\ results' = <<>>
    /\ fed' = NoFed
    /\ UNCHANGED << models, pc, events, split, preds >>

(* ------------------------ EyeDataPreprocessor ------------------------- *)

\* How many of the categories the model keeps.
NumCategories == 2

\* The largest image array the model handles.
MaxSamples == 12

\* The largest augmentation_factor the model tries.
MaxFactor == 3

\* categories of load_retinal_c8_dataset
AllCategories ==
    << "Normal", "Diabetes", "Glaucoma", "Cataract",
       "Age related Macular Degeneration", "Hypertension",
       "Pathological Myopia", "Other diseases/abnormalities" >>

Categories == SubSeq(AllCategories, 1, NumCategories)

NoParts == [train |-> {}, val |-> {}, test |-> {}]

NoPrep ==
    [ op |-> "none", state |-> "returned", error |-> "", arg_images |-> <<>>,
      arg_labels |-> <<>>, factor |-> 0, test_size |-> [num |-> 0, den |-> 1],
      val_size |-> [num |-> 0, den |-> 1] ]

\* An image is known by the picture it shows (id) and by whether
\* apply_random_augmentation made it; pixel values are not kept.
Image(id) == [id |-> id, augmented |-> FALSE]

\* Lines 139-165: a copy of the image, randomly rotated, brightened,
\* flipped and made noisy.
apply_random_augmentation(image) == [image EXCEPT !.augmented = TRUE]

Min(a, b) == IF a < b THEN a ELSE b

\* Lines 127-134 for one image: the original, then factor - 1 augmented copies.
AugmentedImagesOf(img, factor) ==
    <<img>> \o [k \in 1..(factor - 1) |-> apply_random_augmentation(img)]

\* The label appended for the original only.
LabelOnce(label, factor) == <<label>>

\* Lines 129 and 135 for one image: its label, once per appended image.
AugmentedLabelsOf(label, factor) == [k \in 1..factor |-> label]

RECURSIVE AugmentedImages(_, _, _)
AugmentedImages(imgs, n, factor) ==
    IF n = 0 THEN <<>>
    ELSE AugmentedImages(imgs, n - 1, factor) \o AugmentedImagesOf(imgs[n], factor)

RECURSIVE AugmentedLabels(_, _, _)
AugmentedLabels(labs, n, factor) ==
    IF n = 0 THEN <<>>
    ELSE AugmentedLabels(labs, n - 1, factor) \o AugmentedLabelsOf(labs[n], factor)

RECURSIVE LabelsOfCounts(_, _)
LabelsOfCounts(counts, c) ==
    IF c = 0 THEN <<>>
    ELSE LabelsOfCounts(counts, c - 1) \o [k \in 1..counts[c] |-> Categories[c]]

\* Images per category: the categories in use are the first ones of the list.
DatasetCounts ==
    { counts \in [1..Len(Categories) -> 0..MaxSamples] :
        /\ SumTo(counts, Len(Categories)) <= MaxSamples
        /\ \A c \in 2..Len(Categories) : counts[c] > 0 => counts[c - 1] > 0 }

\* The arrays a loader returns (lines 20-74, category after category), with
\* counts[c] images of category c.
LoadDataset ==
    /\ prep.op = "none"
    /\ \E counts \in DatasetCounts :
          /\ labels' = LabelsOfCounts(counts, Len(Categories))
          /\ images' = [i \in 1..Len(labels') |-> Image(i)]
    /\ parts' = NoParts
    /\ prep' = [NoPrep EXCEPT !.op = "dataset"]

\* Lines 119-137: augment_data(images, labels, augmentation_factor)
AugmentData(factor) ==
    /\ prep.op \in {"dataset", "augment_data"}
    /\ Len(images) * factor <= MaxSamples
    /\ LET n == Min(Len(images), Len(labels))
       IN  /\ images' = AugmentedImages(images, n, factor)
           /\ labels' = AugmentedLabels(labels, n, factor)
    /\ parts' = NoParts
    /\ prep' = [NoPrep EXCEPT !.op = "augment_data", !.arg_images = images,
                              !.arg_labels = labels, !.factor = factor]

(* ---- create_dataset_splits ---- *)

RECURSIVE SumOver(_, _)
SumOver(f, S) ==
    IF S = {} THEN 0
    ELSE LET c == CHOOSE x \in S : TRUE IN f[c] + SumOver(f, S \ {c})

Members(S, y, c) == { i \in S : y[i] = c }

ClassCounts(S, y) == [c \in { y[i] : i \in S } |-> Cardinality(Members(S, y, c))]

\* A plain shuffle split: any allocation of n_draws over the classes.
AnyAllocation(class_counts, n_draws) ==
    { a \in [DOMAIN class_counts -> 0..n_draws] :
        /\ \A c \in DOMAIN class_counts : a[c] <= class_counts[c]
        /\ SumOver(a, DOMAIN class_counts) = n_draws }

\* stratify=labels: scikit-learn gives each class the floor of its
\* proportional share of n_draws and hands the samples still missing to the
\* classes with the largest remainders, ties broken at random.  The result
\* is the set of allocations it can return.
ApproximateMode(class_counts, n_draws) ==
    LET C == DOMAIN class_counts
        total == SumOver(class_counts, C)
        floored == [c \in C |-> (class_counts[c] * n_draws) \div total]
        remainder == [c \in C |-> (class_counts[c] * n_draws) % total]
        need_to_add == n_draws - SumOver(floored, C)
        Added == { A \in SUBSET C :
                     /\ Cardinality(A) = need_to_add
                     /\ \A c \in A : \A d \in C \ A : remainder[c] >= remainder[d] }
    IN  { [c \in C |-> floored[c] + (IF c \in A THEN 1 ELSE 0)] : A \in Added }

KSubsets(S, k) == { T \in SUBSET S : Cardinality(T) = k }

RECURSIVE PickByClass(_, _, _, _)
PickByClass(S, y, alloc, C) ==
    IF C = {} THEN {{}}
    ELSE LET c == CHOOSE x \in C : TRUE
         IN  { A \cup B : A \in KSubsets(Members(S, y, c), alloc[c]),
                          B \in PickByClass(S, y, alloc, C \ {c}) }

\* Why train_test_split(..., test_size=size, stratify=y) refuses the samples
\* S, or "" when it accepts them.
SplitError(S, y, size) ==
    LET n == Cardinality(S)
        n_test == NTest(n, size)
        n_train == n - n_test
        cc == ClassCounts(S, y)
    IN  IF n = 0 THEN "ValueError: at least one array required"
        ELSE IF ~(0 < size.num /\ size.num < size.den)
        THEN "ValueError: test_size should be in the (0, 1) range"
        ELSE IF n_train = 0 THEN "ValueError: the resulting train set will be empty"
        ELSE IF \E c \in DOMAIN cc : cc[c] < 2
        THEN "ValueError: the least populated class in y has only 1 member"
        ELSE IF n_train < Cardinality(DOMAIN cc) \/ n_test < Cardinality(DOMAIN cc)
        THEN "ValueError: should be greater or equal to the number of classes"
        ELSE ""

\* The splits train_test_split(S, y, test_size=size, random_state=42,
\* stratify=y) can return, as sets of positions of the input; the order
\* inside a partition is not kept.
train_test_split(S, y, size) ==
    LET n_train == Cardinality(S) - NTest(Cardinality(S), size)
        cc == ClassCounts(S, y)
    IN  { [train |-> T, test |-> S \ T] :
            T \in UNION { PickByClass(S, y, alloc, DOMAIN cc) :
                            alloc \in ApproximateMode(cc, n_train) } }

\* val_size handed to the second split as it is.
ValSizeUnadjusted(val_size, test_size) == val_size

\* Line 177: val_size_adjusted = val_size / (1 - test_size)
ValSizeAdjusted(val_size, test_size) ==
    [ num |-> val_size.num * test_size.den,
      den |-> val_size.den * (test_size.den - test_size.num) ]

\* The second split run on all the images again.
WholeInput(all, first) == all

\* Lines 178-179: the second split works on X_temp, y_temp.
SecondSplitInput(all, first) == first.train

\* main calls create_dataset_splits with the default sizes.
SplitSizes == { [test_size |-> TestSizeDefault, val_size |-> ValSizeDefault] }

\* Lines 167-187: create_dataset_splits(images, labels, test_size, val_size)
CreateDatasetSplits(test_size, val_size) ==
    /\ prep.op \in {"dataset", "augment_data"}
    /\ LET all == 1..Len(images)
           called == [NoPrep EXCEPT !.op = "create_dataset_splits",
                                    !.state = "running",
                                    !.test_size = test_size, !.val_size = val_size]
           val_size_adjusted == ValSizeAdjusted(val_size, test_size)
       IN  IF SplitError(all, labels, test_size) # ""
           THEN /\ prep' = [called EXCEPT !.state = "raised",
                                          !.error = SplitError(all, labels, test_size)]
                /\ parts' = NoParts
           ELSE \E first \in train_test_split(all, labels, test_size) :
                  LET temp == SecondSplitInput(all, first)
                  IN  IF SplitError(temp, labels, val_size_adjusted) # ""
                      THEN /\ prep' = [called EXCEPT !.state = "raised",
                                         !.error = SplitError(temp, labels, val_size_adjusted)]
                           /\ parts' = NoParts
                      ELSE \E second \in train_test_split(temp, labels, val_size_adjusted) :
                             /\ prep' = [called EXCEPT !.state = "returned"]
                             /\ parts' = [ train |-> second.train, val |-> second.test,
                                           test |-> first.test ]
    /\ UNCHANGED << images, labels >>

\* Lines 196 to 201: the six np.save calls, in order.
ProcessedFiles ==
    << "X_train.npy", "y_train.npy", "X_val.npy", "y_val.npy",
       "X_test.npy", "y_test.npy" >>

\* save_processed_data(data_splits, save_path), given what
\* create_dataset_splits returned as main gives it (line 240).
SaveProcessedData ==
    /\ prep.op = "create_dataset_splits"
    /\ prep.state = "returned"
    /\ saved' = ProcessedFiles
    /\ prep' = [prep EXCEPT !.op = "save_processed_data"]
    /\ UNCHANGED << images, labels, parts >>

\* The preprocessing process ends, at the end of main or at an exception:
\* what it held in memory is gone, what it wrote stays.
PrepExit ==
    /\ prep.op # "exited"
    /\ prep' = [NoPrep EXCEPT !.op = "exited"]
    /\ images' = <<>>
    /\ labels' = <<>>
    /\ parts' = NoParts
    /\ UNCHANGED saved

(* ---- the detector ---- *)

Init ==
    /\ models = <<>>
    /\ pc = "idle"
    /\ frame = NoFrame
    /\ events = <<>>
    /\ split = NoSplit
    /\ preds = NoPreds
    /\ invoked = <<>>
    /\ prediction = NoPrediction
    /\ results = <<>>
    /\ files = <<>>
    /\ last = Returned(Called("__init__", <<>>))
    /\ fed = NoFed
    /\ images = <<>>
    /\ labels = <<>>
    /\ parts = NoParts
    /\ prep = NoPrep
    /\ saved = <<>>

Next ==
    \/ (\E epochs \in {MainEpochs, DefaultEpochs} : TrainBegin(epochs)) /\ UNCHANGED prepVars
    \/ OctFit /\ UNCHANGED prepVars
    \/ RetinalFit /\ UNCHANGED prepVars
    \/ Stage1Predict /\ UNCHANGED prepVars
    \/ FusionFit /\ UNCHANGED prepVars
    \/ TrainAbort /\ UNCHANGED prepVars
    \/ (\E rank \in ImageRanks : PredictBegin(rank)) /\ UNCHANGED prepVars
    \/ PredictOct /\ UNCHANGED prepVars
    \/ PredictRetinal /\ UNCHANGED prepVars
    \/ PredictFusion /\ UNCHANGED prepVars
    \/ (\E y_test \in LabelArrays(TestSamples) : EvalBegin(y_test)) /\ UNCHANGED prepVars
    \/ EvalStep /\ UNCHANGED prepVars
    \/ SaveModels /\ UNCHANGED prepVars

Spec == Init /\ [][Next]_vars

(* ---- the preprocessor ---- *)

PrepNext ==
    \/ LoadDataset /\ UNCHANGED << detVars, saved >>
    \/ (\E factor \in 1..MaxFactor : AugmentData(factor)) /\ UNCHANGED << detVars, saved >>
    \/ (\E sizes \in SplitSizes : CreateDatasetSplits(sizes.test_size, sizes.val_size))
          /\ UNCHANGED << detVars, saved >>
    \/ SaveProcessedData /\ UNCHANGED detVars

PrepSpec == Init /\ [][PrepNext]_vars

(* ---- the two scripts, one after the other ---- *)

\* The preprocessing script runs first and ends; the training script then
\* starts with a new detector.  They share nothing but the disk.
ScriptsNext ==
    \/ PrepNext
    \/ PrepExit /\ UNCHANGED detVars
    \/ prep.op = "exited" /\ Next

ScriptsSpec == Init /\ [][ScriptsNext]_vars

(* ------------------- properties of the detector ----------------------- *)

MissingModel(d) == \E i \in 1..Len(RequiredModels) : ~HasKey(d, RequiredModels[i])

\* C1: predict_disease on a models dict lacking 'oct', 'retinal' or 'fusion'
\* raises the 'Models not trained' ValueError, invokes no model and leaves
\* the dict as it found it.
C1_UntrainedPredictRaises ==
    (last.op = "predict_disease" /\ MissingModel(last.before)) =>
        /\ last.state = "raised"
        /\ last.error = NotTrained
        /\ invoked = <<>>
        /\ models = last.before
        /\ prediction = NoPrediction

\* The partial dict of an aborted train_models call, then predict_disease.
C1_Witness ==
    /\ last.op = "predict_disease"
    /\ last.before = <<"oct", "retinal">>
    /\ events = <<"oct_fit", "retinal_fit", "stage1_predict">>
    /\ last.error = NotTrained

\* C2: predict_disease on a fully trained detector returns a disease that is
\* one of class_names and a confidence within [0, 100].
C2_PredictionInRange ==
    (last.op = "predict_disease" /\ ~MissingModel(last.before) /\ pc = "idle") =>
        /\ last.state = "returned"
        /\ \E i \in 1..Len(class_names) : prediction.disease = class_names[i]
        /\ 0 <= prediction.confidence
        /\ prediction.confidence <= 100 * Scale

C2_Witness ==
    /\ last.op = "predict_disease"
    /\ last.state = "returned"
    /\ prediction.disease = class_names[Len(class_names)]
    /\ 0 < prediction.confidence
    /\ prediction.confidence < 100 * Scale

\* C3: the disease is the class at the arg-max index of the fusion output,
\* and oct_confidence and retinal_confidence are 100 times the stage-1
\* probabilities at that same index.
C3_ConfidencesAtFusedArgMax ==
    (last.op = "predict_disease" /\ last.state = "returned") =>
        \E idx \in ClassIdx :
            /\ \A j \in ClassIdx : frame.final_pred[j] <= frame.final_pred[idx]
            /\ \A j \in ClassIdx : j < idx => frame.final_pred[j] < frame.final_pred[idx]
            /\ prediction.disease = class_names[idx]
            /\ prediction.confidence = 100 * frame.final_pred[idx]
            /\ prediction.oct_confidence = 100 * frame.oct_pred[idx]
            /\ prediction.retinal_confidence = 100 * frame.retinal_pred[idx]

\* The OCT model favours another class than the fused prediction, and its
\* reported confidence is below its own top probability.
C3_Witness ==
    /\ last.op = "predict_disease"
    /\ last.state = "returned"
    /\ \E j \in ClassIdx :
          /\ prediction.disease # class_names[j]
          /\ \A k \in ClassIdx : frame.oct_pred[k] <= frame.oct_pred[j]
          /\ prediction.oct_confidence < 100 * frame.oct_pred[j]
          /\ prediction.oct_confidence > 0

TrainOrder == <<"oct_fit", "retinal_fit", "stage1_predict", "fusion_fit">>

\* C4: the training events come in the order OCT fit, retinal fit, stage-1
\* predictions, fusion fit; the fusion fit starts only with both stage-1
\* models fitted and their predictions made for all of X_train and X_val.
C4_FusionAfterStage1 ==
    /\ Len(events) <= Len(TrainOrder)
    /\ events = SubSeq(TrainOrder, 1, Len(events))
    /\ (pc = "fusion_fit" \/ \E i \in 1..Len(events) : events[i] = "fusion_fit") =>
          /\ HasKey(models, "oct")
          /\ HasKey(models, "retinal")
          /\ split.train + split.val = TrainingSamples
          /\ split.train > 0 /\ split.val > 0
          /\ preds.oct_train = split.train /\ preds.retinal_train = split.train
          /\ preds.oct_val = split.val /\ preds.retinal_val = split.val

C4_Witness ==
    /\ last.op = "train_models"
    /\ last.state = "returned"
    /\ events = TrainOrder
    /\ models = <<"oct", "retinal", "fusion">>

\* C10: evaluate_models on a fully trained detector and any test set that
\* simulate_training_data can draw returns, with an accuracy in [0, 1] for
\* each of the three models.
C10_EvaluateNeverRaises ==
    (last.op = "evaluate_models" /\ ~MissingModel(last.before) /\ pc = "idle") =>
        /\ last.state = "returned"
        /\ Len(results) = Len(RequiredModels)
        /\ \A i \in 1..Len(results) :
              /\ 0 <= results[i].accuracy.num
              /\ results[i].accuracy.num <= results[i].accuracy.den

\* evaluate_models does return for some test sets.
C10_Returns ==
    /\ last.op = "evaluate_models"
    /\ last.state = "returned"
    /\ Len(results) = Len(RequiredModels)

(* ------------------ properties of the preprocessor -------------------- *)

Abs(x) == IF x < 0 THEN -x ELSE x

SplitReturned == prep.op = "create_dataset_splits" /\ prep.state = "returned"

DefaultSizes == prep.test_size = TestSizeDefault /\ prep.val_size = ValSizeDefault

\* The samples left once the test partition is removed.
Remaining == (1..Len(images)) \ parts.test

\* C5 as stated: the test partition is 20% of the input and the validation
\* partition 10% of the remaining samples (each rounded up to a whole sample).
C5_ValidationTenthOfRemainder ==
    (SplitReturned /\ DefaultSizes) =>
        /\ Cardinality(parts.test) = Ceil(2 * Len(images), 10)
        /\ Cardinality(parts.val) = Ceil(1 * Cardinality(Remaining), 10)

\* C5 amended: the test partition is 20% of the input and the validation
\* partition 12.5% of the remaining samples, val_size / (1 - test_size),
\* which is 10% of the input (each rounded up to a whole sample).
C5_ValidationEighthOfRemainder ==
    (SplitReturned /\ DefaultSizes) =>
        /\ Cardinality(parts.test) = Ceil(2 * Len(images), 10)
        /\ Cardinality(parts.val) = Ceil(125 * Cardinality(Remaining), 1000)
        /\ 10 * Cardinality(parts.val) >= Len(images) - 10
        /\ 10 * Cardinality(parts.val) < Len(images) + 10

\* An accepted input on which an eighth and a tenth of the remainder differ.
C5_Witness ==
    /\ SplitReturned /\ DefaultSizes
    /\ Cardinality(Remaining) = 9
    /\ Cardinality(parts.val) = 2

\* C6: the sizes of the train, validation and test partitions sum to the
\* number of input samples; no sample is lost and none is in two partitions.
C6_PartitionsCoverInput ==
    SplitReturned =>
        /\ Cardinality(parts.train) + Cardinality(parts.val)
              + Cardinality(parts.test) = Len(images)
        /\ parts.train \cup parts.val \cup parts.test = 1..Len(images)
        /\ parts.train \cap parts.val = {}
        /\ parts.train \cap parts.test = {}
        /\ parts.val \cap parts.test = {}

C6_Witness ==
    /\ SplitReturned
    /\ Len(images) = MaxSamples
    /\ \E i \in parts.train : \E j \in parts.test : labels[i] # labels[j]
    /\ parts.val # {}

CountIn(P, c) == Cardinality({ i \in P : labels[i] = c })

\* The count of class c in part P of whole W is within `samples` samples of
\* the share that c's fraction in W gives it.
Proportional(P, W, c, samples) ==
    Abs(CountIn(P, c) * Cardinality(W) - CountIn(W, c) * Cardinality(P))
        < samples * Cardinality(W)

\* C7: for every class, its count in a partition is less than one sample away
\* from its proportional share in each split (test and remainder out of the
\* input, train and validation out of the remainder), hence less than two
\* samples away from its share of the input after the two splits.
C7_ClassProportionsKept ==
    SplitReturned =>
        \A c \in Range(labels) :
            LET all == 1..Len(images)
            IN  /\ Proportional(parts.test, all, c, 1)
                /\ Proportional(Remaining, all, c, 1)
                /\ Proportional(parts.train, Remaining, c, 1)
                /\ Proportional(parts.val, Remaining, c, 1)
                /\ Proportional(parts.train, all, c, 2)
                /\ Proportional(parts.val, all, c, 2)

\* Two classes of different sizes, each present in all three partitions.
C7_Witness ==
    /\ SplitReturned
    /\ \E c \in Range(labels) : \E d \in Range(labels) :
          /\ CountIn(1..Len(images), c) < CountIn(1..Len(images), d)
          /\ CountIn(parts.train, c) > 0 /\ CountIn(parts.val, c) > 0
          /\ CountIn(parts.test, c) > 0 /\ CountIn(parts.val, d) > 0

AugmentReturned == prep.op = "augment_data"

\* C8: augment_data returns parallel arrays of n * f entries; entry p comes
\* from source image (p - 1) \div f + 1 and carries that image's label; the
\* first entry of each source is the unmodified original and the next f - 1
\* are augmented copies.
C8_AugmentationKeepsLabels ==
    AugmentReturned =>
        LET f == prep.factor
            n == Len(prep.arg_images)
        IN  /\ Len(images) = n * f
            /\ Len(labels) = Len(images)
            /\ \A p \in 1..Len(images) :
                  LET src == ((p - 1) \div f) + 1
                  IN  /\ labels[p] = prep.arg_labels[src]
                      /\ images[p].id = prep.arg_images[src].id
                      /\ (p - 1) % f = 0 => images[p] = prep.arg_images[src]
                      /\ (p - 1) % f # 0 => images[p].augmented

\* Two sources with different labels, each followed by augmented copies.
C8_Witness ==
    /\ AugmentReturned
    /\ prep.factor = MaxFactor
    /\ Len(prep.arg_images) >= 2
    /\ labels[1] # labels[Len(labels)]
    /\ images[2].augmented /\ ~images[1].augmented

(* ---------------- properties of the model graphs ---------------------- *)

\* C11: the vector the fusion model concatenates is 2 * len(class_names) + 256
\* long, and the prediction arrays train_models, evaluate_models and
\* predict_disease hand to it have rows len(class_names) wide.
C11_FusionInputLength ==
    fed # NoFed =>
        /\ fed.by \in {"train_models", "evaluate_models", "predict_disease"}
        /\ fed.by = last.op
        /\ fed.combined = 2 * Len(class_names) + 256
        /\ fed.oct = Len(class_names)
        /\ fed.retinal = Len(class_names)
        /\ last.error # "ValueError: incompatible input shape"

\* evaluate_models has handed its arrays to the fusion model and gone on.
C11_Witness ==
    /\ fed.by = "evaluate_models"
    /\ last.state = "returned"
    /\ \E i \in 1..Len(results) : results[i].model = "fusion"

(* ------------------- properties of what is written -------------------- *)

\* C12: save_processed_data writes exactly six array files, images and
\* labels for each of train, validation and test; save_models, whatever the
\* models dict holds, writes one model file per entry of it, at most three,
\* and exactly one class_names.json.
C12_FilesWritten ==
    /\ saved # <<>> =>
          /\ Len(saved) = 6
          /\ Cardinality(Range(saved)) = 6
          /\ Range(saved) = { "X_train.npy", "y_train.npy", "X_val.npy",
                              "y_val.npy", "X_test.npy", "y_test.npy" }
    /\ prep.op = "save_processed_data" => saved # <<>>
    /\ last.op = "save_models" =>
          /\ Len(files) = Len(last.before) + 1
          /\ Len(last.before) <= 3
          /\ \A i \in 1..Len(last.before) : files[i] = <<last.before[i], "_model.h5">>
          /\ Cardinality({i \in 1..Len(files) : files[i] = <<"class_names.json">>}) = 1
          /\ last.before = models

\* The processed data are on disk and save_models has run on a detector
\* whose training stopped after the first model.
C12_Witness ==
    /\ Len(saved) = 6
    /\ last.op = "save_models"
    /\ last.before = <<"oct">>
    /\ Len(files) = 2

(* ------------------- properties of the models dict -------------------- *)

\* C13: whatever sequence of train_models, evaluate_models, predict_disease
\* and save_models calls has been made, train_models having stopped at any
\* step, the models dict holds 'fusion' only if it holds 'oct' and
\* 'retinal' too, so evaluate_models never fails to find a stage-1 model
\* when its loop comes to the fusion model.
C13_FusionOnlyWithStage1 ==
    /\ HasKey(models, "fusion") => HasKey(models, "oct") /\ HasKey(models, "retinal")
    /\ last.op = "evaluate_models" =>
          last.error \notin {"KeyError: 'oct'", "KeyError: 'retinal'"}

\* A second train_models stopped after its OCT fit, and evaluate_models has
\* since evaluated the fusion model.
C13_Witness ==
    /\ last.op = "evaluate_models"
    /\ events = <<"oct_fit">>
    /\ HasKey(last.before, "fusion")
    /\ \E i \in 1..Len(results) : results[i].model = "fusion"

====
